---- MODULE Spec2Model ----
(***************************************************************************)
(* Model of the deterministic workflow execution engine of                 *)
(* backend/workflows/deterministic_executor.py: loop detection, the        *)
(* scheduler _execute_graph with its loop handling and dependency gate,    *)
(* and the outcome of the node executors; and of execute_workflow with the *)
(* quality validation of backend/workflows/quality_validator.py and the    *)
(* corrective pass.                                                        *)
(***************************************************************************)
EXTENDS Integers, Sequences, FiniteSets, TLC

(***************************************************************************)
(* Bounds of the model.                                                    *)
(***************************************************************************)
MaxEdges == 3
MaxBudget == 5
MaxLoopBound == 2

(***************************************************************************)
(* Program constants: WorkflowContext.max_iterations (line 54) and the     *)
(* max_iterations _detect_loops gives every LoopState (line 768).          *)
(***************************************************************************)
DefaultMaxIterations == 100
DefaultLoopIterations == 10

(***************************************************************************)
(* NodeType (lines 13-17) and the node universe of the general graphs.     *)
(***************************************************************************)
NodeType == {"inputNode", "agentNode", "toolConnectionNode", "mcpNode"}

Node == {1, 2, 3}

(***************************************************************************)
(* Texts: a string is a sequence of characters.  AgentOutputs are the      *)
(* texts the agent runtime may return for an agent node.                   *)
(***************************************************************************)
AgentOutputs == { <<"o", "k">>, <<"D", "o", "n", "e">> }

NoOutput == << >>

Upper(c) ==
  CASE c = "a" -> "A" [] c = "b" -> "B" [] c = "c" -> "C" [] c = "d" -> "D"
    [] c = "e" -> "E" [] c = "k" -> "K" [] c = "l" -> "L" [] c = "m" -> "M"
    [] c = "n" -> "N" [] c = "o" -> "O" [] c = "p" -> "P" [] c = "s" -> "S"
    [] c = "t" -> "T" [] OTHER -> c

UpperStr(s) == [i \in 1..Len(s) |-> Upper(s[i])]

Contains(s, w) ==
  \E i \in 1..(Len(s) - Len(w) + 1) : SubSeq(s, i, i + Len(w) - 1) = w


VARIABLES
  nodes,             \* the graph's node ids, in the order of the graph dict
  edges,             \* the edge list, in the order the edges were given
  node_type,         \* graph[n]['type']
  max_iterations,    \* context.max_iterations
  loop_max,          \* LoopState.max_iterations given to every detected loop
  active_loops,      \* context.active_loops, in insertion order (loop_0, loop_1, ...)
  current_iteration, \* context.current_iteration
  execution_queue,   \* _execute_graph's execution_queue
  completed_nodes,   \* _execute_graph's completed_nodes
  node_status,       \* _execute_graph's node_status
  node_outputs,      \* context.node_outputs (NoResult: no entry)
  events,            \* the events yielded so far, in order
  executions,        \* per node, the number of calls of _execute_node so far
  dequeues,          \* the number of execution_queue.pop(0) so far
  skipped,           \* the nodes a dequeue of which was dropped at lines 630-631
  pc                 \* "init": before _execute_graph, "loop": at the while test, "done"

VARIABLES
  phase,                   \* the position of execute_workflow ("idle": not called)
  workflow_name,           \* workflow.name, as far as the quality check reads it
  variables,               \* the variables argument
  execution,               \* the WorkflowExecution record: status and error
  workflow_completed,      \* execute_workflow's workflow_completed
  initial_workflow_output, \* the output collected from the main agent run
  validation_response,     \* what the judge's LLM call gave
  quality_result,          \* the QualityCheckResult of the run
  agent_runs,              \* the number of calls of run_agent so far
  thread                   \* the messages execute_workflow has added to the thread

quality_phase == << phase, workflow_name, variables, execution, workflow_completed,
                    initial_workflow_output, validation_response, quality_result,
                    agent_runs, thread >>

vars == << nodes, edges, node_type, max_iterations, loop_max, active_loops,
           current_iteration, execution_queue, completed_nodes, node_status,
           node_outputs, events, executions, dequeues, skipped, pc, quality_phase >>

inputs == << nodes, edges, node_type, max_iterations, loop_max >>

(***************************************************************************)
(* The graph dict: per node its incoming and outgoing edge lists and the   *)
(* sets of direct dependencies and dependents.                             *)
(***************************************************************************)
Source(e) == e[1]

Target(e) == e[2]

IsOutgoing(n, e) == Source(e) = n

IsIncoming(n, e) == Target(e) = n

outgoing_edges(es, n) == SelectSeq(es, LAMBDA e : IsOutgoing(n, e))

incoming_edges(es, n) == SelectSeq(es, LAMBDA e : IsIncoming(n, e))

dependencies(es, n) == { Source(es[i]) : i \in { j \in 1..Len(es) : IsIncoming(n, es[j]) } }

dependents(es, n) == { Target(es[i]) : i \in { j \in 1..Len(es) : IsOutgoing(n, es[j]) } }

Range(s) == { s[i] : i \in 1..Len(s) }

\* the index of the first occurrence of x in the list s (list.index)
Index(s, x) == CHOOSE i \in 1..Len(s) : s[i] = x /\ \A j \in 1..(i - 1) : s[j] # x

\* every order in which the elements of the set S can be iterated
Orderings(S) ==
  { s \in [1..Cardinality(S) -> S] : \A i, j \in 1..Cardinality(S) : i # j => s[i] # s[j] }

(***************************************************************************)
(* _find_entry_points: the nodes without incoming edges, in graph order.   *)
(***************************************************************************)
HasNoIncoming(es, n) == incoming_edges(es, n) = << >>

_find_entry_points(ns, es) == SelectSeq(ns, LAMBDA n : HasNoIncoming(es, n))

(***************************************************************************)
(* _detect_loops: depth-first traversal from every unvisited node in graph *)
(* order, following outgoing_edges in list order.  The traversal state st  *)
(* holds loops (in insertion order), visited and rec_stack.                *)
(***************************************************************************)
LoopState(path, node_id, lmax) ==
  [ loop_nodes        |-> { path[i] : i \in Index(path, node_id)..Len(path) },
    entry_node        |-> node_id,
    current_iteration |-> 0,
    max_iterations    |-> lmax ]

RECURSIVE dfs(_, _, _, _, _)
RECURSIVE dfs_edges(_, _, _, _, _, _)

dfs(es, lmax, node_id, path, st) ==
  IF node_id \in st.rec_stack
    THEN [st EXCEPT !.loops = Append(@, LoopState(path, node_id, lmax))]
  ELSE IF node_id \in st.visited
    THEN st
  ELSE LET entered == [st EXCEPT !.visited = @ \cup {node_id},
                                 !.rec_stack = @ \cup {node_id}]
           after == dfs_edges(es, lmax, outgoing_edges(es, node_id), 1, path, entered)
       IN  [after EXCEPT !.rec_stack = @ \ {node_id}]

dfs_edges(es, lmax, out, i, path, st) ==
  IF i > Len(out)
    THEN st
    ELSE dfs_edges(es, lmax, out, i + 1, path,
                   dfs(es, lmax, Target(out[i]), Append(path, Target(out[i])), st))

RECURSIVE dfs_roots(_, _, _, _, _)

dfs_roots(ns, es, lmax, i, st) ==
  IF i > Len(ns)
    THEN st
    ELSE dfs_roots(ns, es, lmax, i + 1,
                   IF ns[i] \in st.visited THEN st
                   ELSE dfs(es, lmax, ns[i], << ns[i] >>, st))

_detect_loops(ns, es, lmax) ==
  dfs_roots(ns, es, lmax, 1, [loops |-> << >>, visited |-> {}, rec_stack |-> {}]).loops

(***************************************************************************)
(* _get_node_loop: the first loop, in insertion order, that contains the   *)
(* node; 0 stands for None, and loop i of the sequence is "loop_(i-1)".    *)
(***************************************************************************)
ContainingLoops(loops, node_id) ==
  { i \in 1..Len(loops) : node_id \in loops[i].loop_nodes }

_get_node_loop(loops, node_id) ==
  IF ContainingLoops(loops, node_id) = {}
    THEN 0
    ELSE CHOOSE i \in ContainingLoops(loops, node_id) :
           \A j \in ContainingLoops(loops, node_id) : i <= j

(***************************************************************************)
(* _handle_loop_execution (the caller's 'skip' branch is never returned).  *)
(***************************************************************************)
\* a handler that lets a loop run one iteration past its bound
HandleLoopExecutionPastBound(node_id, loop_state) ==
  IF loop_state.current_iteration > loop_state.max_iterations
    THEN "exit_loop"
  ELSE IF node_id = loop_state.entry_node /\ loop_state.current_iteration > 0
    THEN "restart_loop"
  ELSE "continue"

_handle_loop_execution(node_id, loop_state) ==
  IF loop_state.current_iteration >= loop_state.max_iterations
    THEN "exit_loop"
  ELSE IF node_id = loop_state.entry_node /\ loop_state.current_iteration > 0
    THEN "restart_loop"
  ELSE "continue"

(***************************************************************************)
(* _check_loop_exit_condition on the loop and the result of the node that  *)
(* has just run.                                                           *)
(***************************************************************************)
ExitTokens == { <<"S", "T", "O", "P">>,
                <<"C", "O", "M", "P", "L", "E", "T", "E">>,
                <<"D", "O", "N", "E">> }

HasExitToken(output) == \E w \in ExitTokens : Contains(UpperStr(output), w)

_check_loop_exit_condition(loop_state, node_result) ==
  IF loop_state.current_iteration >= loop_state.max_iterations
    THEN TRUE
  ELSE IF node_result.type = "agent"
    THEN HasExitToken(node_result.output)
  ELSE FALSE

(***************************************************************************)
(* _are_dependencies_satisfied; current_loop is a record [some, loop].     *)
(***************************************************************************)
\* a gate that checks only whether some dependency has completed
GateAnyDependency(deps, completed, current_loop) ==
  deps = {} \/ (deps \cap completed) # {} \/ current_loop.some

_are_dependencies_satisfied(deps, completed, current_loop) ==
  IF current_loop.some
    THEN (deps \ current_loop.loop.loop_nodes) \subseteq completed
    ELSE deps \subseteq completed

(***************************************************************************)
(* _exit_loop: the nodes outside the loop that a loop member points to.    *)
(***************************************************************************)
loop_exit_nodes(es, loop_state) ==
  { t \in UNION { dependents(es, n) : n \in loop_state.loop_nodes } :
      t \notin loop_state.loop_nodes }

RECURSIVE AppendMissing(_, _, _)

\* for node_id in order: if node_id not in queue: queue.append(node_id)
AppendMissing(queue, order, i) ==
  IF i > Len(order)
    THEN queue
    ELSE AppendMissing(IF order[i] \in Range(queue) THEN queue
                       ELSE Append(queue, order[i]),
                       order, i + 1)

(***************************************************************************)
(* The node executors, as far as the scheduler sees them: _execute_node    *)
(* returns a result record or raises.  A tool node without outgoing edges  *)
(* calls self._execute_tool_with_agentpress, which the class does not      *)
(* define, so the call raises AttributeError.                              *)
(***************************************************************************)
Result(type, output) == [type |-> type, output |-> output]

NoResult == Result("none", NoOutput)

Raised == [raised |-> TRUE, result |-> NoResult]

Returned(r) == [raised |-> FALSE, result |-> r]

has_outgoing_edges(es, n) == \E i \in 1..Len(es) : Source(es[i]) = n

_execute_tool_node(es, n) ==
  IF ~ has_outgoing_edges(es, n)
    THEN { Raised }
    ELSE { Returned(Result("tool", NoOutput)) }

_execute_agent_node ==
  { Raised } \cup { Returned(Result("agent", o)) : o \in AgentOutputs }

_execute_node(es, type, n) ==
  CASE type = "inputNode"          -> { Returned(Result("input", NoOutput)) }
    [] type = "mcpNode"            -> { Returned(Result("mcp", NoOutput)) }
    [] type = "toolConnectionNode" -> _execute_tool_node(es, n)
    [] type = "agentNode"          -> _execute_agent_node

(***************************************************************************)
(* The events the generator yields.                                        *)
(***************************************************************************)
Event(type, node_id, loop_id, status, n, detail, pending, output) ==
  [ type |-> type, node_id |-> node_id, loop_id |-> loop_id, status |-> status,
    n |-> n, detail |-> detail, pending |-> pending, output |-> output ]

WorkflowProgress(completed) ==
  Event("workflow_progress", 0, 0, "", Cardinality(completed), "", {}, NoResult)

NodeStatusEvent(node_id, status) ==
  Event("node_status", node_id, 0, status, 0, "", {}, NoResult)

NodeCompletedEvent(node_id, node_result) ==
  Event("node_status", node_id, 0, "completed", 0, "", {}, node_result)

LoopStatusEvent(loop_id, status, iteration) ==
  Event("loop_status", 0, loop_id, status, iteration, "", {}, NoResult)

WorkflowStatusEvent(status, detail, pending) ==
  Event("workflow_status", 0, 0, status, 0, detail, pending, NoResult)

(***************************************************************************)
(* quality_validator.py.  Scores are in hundredths: 80 stands for 0.8.     *)
(***************************************************************************)
PassThreshold == 80

DefaultOverallScore == 50

UnparsedScore == 50

BasicScore == 70

ShortPenalty == 20

SectionPenalty == 10

MinLength == 100

MinTemplateLength == 100

\* ValidationResult
ValidationResult == {"passed", "failed", "needs_correction"}

(***************************************************************************)
(* A text, as the validator reads it: whether there is one, its length,    *)
(* and the section headers _extract_sections finds in it.                  *)
(***************************************************************************)
Content(len, sections) == [present |-> TRUE, len |-> len, sections |-> sections]

NoContent == [present |-> FALSE, len |-> 0, sections |-> {}]

OutputContents ==
  { NoContent } \cup
  { Content(len, S) : len \in {MinLength - 1, MinLength},
                      S \in { {}, {"A"}, {"A", "B"}, {"A", "B", "C"} } }

TemplateContents ==
  { NoContent } \cup
  { Content(len, S) : len \in {MinTemplateLength, MinTemplateLength + 1},
                      S \in { {}, {"A", "B"}, {"A", "B", "C"} } }

_extract_sections(content) == content.sections

(***************************************************************************)
(* What the judge's LLM call gives: the call raises, or it returns a text  *)
(* without a brace pair ("prose"), a text whose braces do not hold JSON    *)
(* ("malformed"), or a text holding a JSON object whose overall_score is   *)
(* absent, a number or a string, and whose needs_correction is absent,     *)
(* true or false.                                                          *)
(***************************************************************************)
JudgeScores == {0, 50, 79, 80, 100}

Response(kind, score_kind, score, flag) ==
  [kind |-> kind, score_kind |-> score_kind, score |-> score, flag |-> flag]

NoResponse == Response("none", "absent", 0, "absent")

LLMRaised == Response("raised", "absent", 0, "absent")

Verdicts ==
  { Response("object", "number", sc, f) :
      sc \in JudgeScores, f \in {"absent", "true", "false"} }
  \cup { Response("object", k, 0, f) :
           k \in {"absent", "text"}, f \in {"absent", "true", "false"} }

JudgeResponses ==
  { LLMRaised, Response("prose", "absent", 0, "absent"),
    Response("malformed", "absent", 0, "absent") } \cup Verdicts

(***************************************************************************)
(* A correction prompt, by what it embeds; NoPrompt stands for None.       *)
(***************************************************************************)
Prompt(score, issues, original_input, template, output) ==
  [present |-> TRUE, score |-> score, issues |-> issues,
   original_input |-> original_input, template |-> template, output |-> output]

NoPrompt ==
  [present |-> FALSE, score |-> 0, issues |-> {},
   original_input |-> [present |-> FALSE, enable_quality_check |-> FALSE,
                       keywords |-> FALSE, template |-> NoContent],
   template |-> NoContent, output |-> NoContent]

(***************************************************************************)
(* QualityCheckResult.  No code path of the validator sets                 *)
(* correction_prompt: it keeps its default None.                           *)
(***************************************************************************)
Issue(kind, sections) == [kind |-> kind, sections |-> sections]

QualityCheckResult(result, score, issues) ==
  [result |-> result, score |-> score, issues |-> issues, correction_prompt |-> NoPrompt]

\* generate_correction_prompt: the prompt built from the result, the input,
\* the template and the output (no caller in the repository)
generate_correction_prompt(original_output, validation_result, original_input, template_content) ==
  Prompt(validation_result.score, validation_result.issues, original_input,
         template_content, original_output)

NoQualityResult == QualityCheckResult("none", 0, {})

needs_correction(result) == result.result = "needs_correction"

Max(a, b) == IF a >= b THEN a ELSE b

\* the fallback result of _parse_validation_response (lines 281-287)
UnparsedResult ==
  QualityCheckResult("needs_correction", UnparsedScore, { Issue("unparsed", {}) })

\* whether lines 236-263 run through: a brace pair, json.loads succeeds, and
\* the score can be compared with 0.8
Parses(response) == response.kind = "object" /\ response.score_kind # "text"

\* a decision rule that passes only scores above the threshold
ParseWithStrictThreshold(response) ==
  IF Parses(response)
    THEN LET overall_score == IF response.score_kind = "absent"
                                THEN DefaultOverallScore ELSE response.score
             flag == response.flag = "true"
             result == IF overall_score > PassThreshold /\ ~ flag THEN "passed"
                       ELSE IF flag THEN "needs_correction"
                       ELSE "failed"
         IN  QualityCheckResult(result, overall_score, {})
    ELSE UnparsedResult

_parse_validation_response(response) ==
  IF Parses(response)
    THEN LET overall_score == IF response.score_kind = "absent"
                                THEN DefaultOverallScore ELSE response.score
             flag == response.flag = "true"
             result == IF overall_score >= PassThreshold /\ ~ flag THEN "passed"
                       ELSE IF flag THEN "needs_correction"
                       ELSE "failed"
         IN  QualityCheckResult(result, overall_score, {})
    ELSE UnparsedResult

\* a heuristic that starts from the full score
BasicValidationFromFullScore(output_content, template_content) ==
  LET too_short == output_content.len < MinLength
      missing_sections ==
        IF template_content.present /\ template_content.len > MinTemplateLength
          THEN _extract_sections(template_content) \ _extract_sections(output_content)
          ELSE {}
      score == 100 - (IF too_short THEN ShortPenalty ELSE 0)
                   - SectionPenalty * Cardinality(missing_sections)
      issues == (IF too_short THEN { Issue("too_short", {}) } ELSE {})
                \cup (IF missing_sections # {}
                        THEN { Issue("missing_sections", missing_sections) } ELSE {})
  IN  QualityCheckResult(IF score >= PassThreshold THEN "passed" ELSE "needs_correction",
                         Max(0, score), issues)

\* a heuristic that raises the score of an output that is long enough
BasicValidationRewardsLength(output_content, template_content) ==
  LET too_short == output_content.len < MinLength
      missing_sections ==
        IF template_content.present /\ template_content.len > MinTemplateLength
          THEN _extract_sections(template_content) \ _extract_sections(output_content)
          ELSE {}
      score == BasicScore + (IF too_short THEN 0 - ShortPenalty ELSE SectionPenalty)
                          - SectionPenalty * Cardinality(missing_sections)
      issues == (IF too_short THEN { Issue("too_short", {}) } ELSE {})
                \cup (IF missing_sections # {}
                        THEN { Issue("missing_sections", missing_sections) } ELSE {})
  IN  QualityCheckResult(IF score >= PassThreshold THEN "passed" ELSE "needs_correction",
                         Max(0, score), issues)

_basic_validation(output_content, template_content) ==
  LET too_short == output_content.len < MinLength
      missing_sections ==
        IF template_content.present /\ template_content.len > MinTemplateLength
          THEN _extract_sections(template_content) \ _extract_sections(output_content)
          ELSE {}
      score == BasicScore - (IF too_short THEN ShortPenalty ELSE 0)
                          - SectionPenalty * Cardinality(missing_sections)
      issues == (IF too_short THEN { Issue("too_short", {}) } ELSE {})
                \cup (IF missing_sections # {}
                        THEN { Issue("missing_sections", missing_sections) } ELSE {})
  IN  QualityCheckResult(IF score >= PassThreshold THEN "passed" ELSE "needs_correction",
                         Max(0, score), issues)

_perform_llm_validation(output_content, template_content, response) ==
  IF response.kind = "raised"
    THEN _basic_validation(output_content, template_content)
    ELSE _parse_validation_response(response)

validate_workflow_output(workflow_output, template_content, response) ==
  IF ~ workflow_output.present
    THEN QualityCheckResult("failed", 0, { Issue("no_content", {}) })
    ELSE _perform_llm_validation(workflow_output, template_content, response)

(***************************************************************************)
(* execute_workflow's arguments, as far as the quality check reads them.   *)
(***************************************************************************)
Variables(enable_quality_check, keywords, template) ==
  [present |-> TRUE, enable_quality_check |-> enable_quality_check,
   keywords |-> keywords, template |-> template]

NoVariables ==
  [present |-> FALSE, enable_quality_check |-> FALSE, keywords |-> FALSE,
   template |-> NoContent]

VariablesArguments ==
  { NoVariables } \cup
  { Variables(e, k, t) : e \in BOOLEAN, k \in BOOLEAN, t \in TemplateContents }

WorkflowNames == {"thylander", "other"}

_should_perform_quality_check(name, vs) ==
  \/ name = "thylander"
  \/ vs.present /\ (vs.enable_quality_check \/ vs.keywords)

_extract_template_from_variables(vs) ==
  IF vs.present THEN vs.template ELSE NoContent

Execution(status, error) == [status |-> status, error |-> error]

\* execute_workflow has not been called
QualityIdle ==
  /\ phase = "idle"
  /\ workflow_name = "other"
  /\ variables = NoVariables
  /\ execution = Execution("none", "")
  /\ workflow_completed = FALSE
  /\ initial_workflow_output = NoContent
  /\ validation_response = NoResponse
  /\ quality_result = NoQualityResult
  /\ agent_runs = 0
  /\ thread = << >>

(***************************************************************************)
(* The workflows a run may be given.                                       *)
(***************************************************************************)
EdgeKey(e) == Source(e) * (Cardinality(Node) + 2) + Target(e)

RECURSIVE Ascending(_)

Ascending(E) ==
  IF E = {} THEN << >>
  ELSE LET lo == CHOOSE e \in E : \A f \in E : EdgeKey(e) <= EdgeKey(f)
       IN  << lo >> \o Ascending(E \ {lo})

Reverse(s) == [i \in 1..Len(s) |-> s[Len(s) + 1 - i]]

EdgeLists(E) == { Ascending(E), Reverse(Ascending(E)) }

NodeList(k) == [i \in 1..k |-> i]

Budgets == 1..MaxBudget

LoopBounds == 1..MaxLoopBound

\* every graph on the nodes of Node with at most MaxEdges edges
GeneralWorkflows ==
  { [nodes |-> NodeList(Cardinality(Node)), edges |-> es, node_type |-> ty,
     budgets |-> Budgets, loop_bounds |-> LoopBounds] :
      es \in UNION { EdgeLists(E) :
                     E \in { F \in SUBSET (Node \X Node) : Cardinality(F) <= MaxEdges } },
      ty \in [Node -> {"inputNode", "agentNode"}] }

Workflow(k, es, ty) ==
  [nodes |-> NodeList(k), edges |-> es, node_type |-> ty,
   budgets |-> Budgets \cup {DefaultMaxIterations},
   loop_bounds |-> LoopBounds \cup {DefaultLoopIterations}]

\* Input -> Agent -> ToolConnection
Pipeline ==
  Workflow(3, << <<1, 2>>, <<2, 3>> >>,
           <<"inputNode", "agentNode", "toolConnectionNode">>)

\* an Input, a ToolConnection and an MCP node feeding one Agent
Capabilities ==
  Workflow(4, << <<1, 2>>, <<3, 2>>, <<4, 2>> >>,
           <<"inputNode", "agentNode", "toolConnectionNode", "mcpNode">>)

\* Input -> self-looping Agent -> successor
SelfLoop ==
  Workflow(3, << <<1, 2>>, <<2, 2>>, <<2, 3>> >>,
           <<"inputNode", "agentNode", "mcpNode">>)

\* Input -> Agent1 -> Agent2 -> Agent1, with a successor of Agent2 or of Agent1
TwoCycle ==
  { [ Workflow(4, << <<1, 2>>, <<2, 3>>, <<3, 2>>, succ >>,
               <<"inputNode", "agentNode", "agentNode", "mcpNode">>)
      EXCEPT !.loop_bounds = @ \cup {3} ] :
      succ \in { <<3, 4>>, <<2, 4>> } }

\* node 3 lies on the cycle 3 -> 4 -> 3 and on the cycle 2 -> 3 -> 4 -> 2
NestedLoops ==
  Workflow(4, << <<1, 2>>, <<2, 3>>, <<3, 4>>, <<4, 3>>, <<4, 2>> >>,
           <<"inputNode", "agentNode", "agentNode", "agentNode">>)

\* node 1 lies on the cycles 1 -> 2 -> 1 and 1 -> 1, entered from node 3
TwoLoopsOneEntry ==
  Workflow(3, << <<3, 1>>, <<2, 1>>, <<1, 2>>, <<1, 1>> >>,
           <<"agentNode", "agentNode", "inputNode">>)

\* a three-node cycle whose entry also points to itself and out of the loop
ThreeCycle ==
  Workflow(5, << <<1, 2>>, <<2, 3>>, <<3, 4>>, <<4, 2>>, <<2, 2>>, <<2, 4>>, <<2, 5>> >>,
           <<"inputNode", "agentNode", "agentNode", "agentNode", "mcpNode">>)

\* node 4 lies on the cycle 2 -> 4 -> 3 -> 2, which joins the cycle 2 -> 3 -> 2
\* by an edge into a node the traversal has left
CrossEdgeCycle ==
  Workflow(4, << <<1, 2>>, <<2, 3>>, <<3, 2>>, <<2, 4>>, <<4, 3>> >>,
           <<"inputNode", "agentNode", "agentNode", "inputNode">>)

ScenarioWorkflows ==
  { Pipeline, Capabilities, SelfLoop, NestedLoops, TwoLoopsOneEntry, ThreeCycle,
    CrossEdgeCycle }
    \cup TwoCycle

Workflows == GeneralWorkflows \cup ScenarioWorkflows

Init ==
  /\ \E w \in Workflows :
       /\ nodes = w.nodes
       /\ edges = w.edges
       /\ node_type = w.node_type
       /\ max_iterations \in w.budgets
       /\ loop_max \in w.loop_bounds
  /\ active_loops = << >>
  /\ current_iteration = 0
  /\ execution_queue = << >>
  /\ completed_nodes = {}
  /\ node_status = [n \in Range(nodes) |-> "pending"]
  /\ node_outputs = [n \in Range(nodes) |-> NoResult]
  /\ events = << >>
  /\ executions = [n \in Range(nodes) |-> 0]
  /\ dequeues = 0
  /\ skipped = {}
  /\ pc = "init"
  /\ QualityIdle

(***************************************************************************)
(* _execute_graph, lines 595-608: detect the loops, seed the queue with    *)
(* the entry points, yield the first workflow_progress event.              *)
(***************************************************************************)
Start ==
  /\ pc = "init"
  /\ active_loops' = _detect_loops(nodes, edges, loop_max)
  /\ execution_queue' = _find_entry_points(nodes, edges)
  /\ events' = Append(events, WorkflowProgress({}))
  /\ pc' = "loop"
  /\ UNCHANGED << inputs, quality_phase, current_iteration, completed_nodes, node_status,
                  node_outputs, executions, dequeues, skipped >>

(***************************************************************************)
(* One pass of the while loop (lines 610-731).                             *)
(***************************************************************************)
\* a while test that admits one pass too many
LoopRunsOnceMore ==
  /\ pc = "loop"
  /\ execution_queue # << >>
  /\ current_iteration <= max_iterations

LoopRuns ==
  /\ pc = "loop"
  /\ execution_queue # << >>
  /\ current_iteration < max_iterations

current_node_id == Head(execution_queue)

current_loop ==
  LET i == _get_node_loop(active_loops, current_node_id)
  IN  IF i = 0 THEN [some |-> FALSE, id |-> 0, loop |-> << >>]
      ELSE [some |-> TRUE, id |-> i, loop |-> active_loops[i]]

loop_action ==
  IF current_loop.some
    THEN _handle_loop_execution(current_node_id, current_loop.loop)
    ELSE "continue"

\* lines 623-625
ExitLoop ==
  /\ LoopRuns
  /\ loop_action = "exit_loop"
  /\ current_iteration' = current_iteration + 1
  /\ \E order \in Orderings(loop_exit_nodes(edges, current_loop.loop)) :
       execution_queue' = AppendMissing(Tail(execution_queue), order, 1)
  /\ completed_nodes' = completed_nodes \cup current_loop.loop.loop_nodes
  /\ dequeues' = dequeues + 1
  /\ skipped' = skipped
  /\ UNCHANGED << inputs, quality_phase, active_loops, node_status, node_outputs, events,
                  executions, pc >>

\* lines 626-628
RestartLoop ==
  /\ LoopRuns
  /\ loop_action = "restart_loop"
  /\ current_iteration' = current_iteration + 1
  /\ execution_queue' = << current_loop.loop.entry_node >> \o Tail(execution_queue)
  /\ dequeues' = dequeues + 1
  /\ skipped' = skipped
  /\ UNCHANGED << inputs, quality_phase, active_loops, completed_nodes, node_status, node_outputs,
                  events, executions, pc >>

\* a skip test with the loop condition inverted
IsDroppedInsideLoop == current_node_id \in completed_nodes /\ current_loop.some

\* lines 630-631
IsDropped == current_node_id \in completed_nodes /\ ~ current_loop.some

SkipCompleted ==
  /\ LoopRuns
  /\ loop_action = "continue"
  /\ IsDropped
  /\ current_iteration' = current_iteration + 1
  /\ execution_queue' = Tail(execution_queue)
  /\ dequeues' = dequeues + 1
  /\ skipped' = skipped \cup {current_node_id}
  /\ UNCHANGED << inputs, quality_phase, active_loops, completed_nodes, node_status, node_outputs,
                  events, executions, pc >>

\* a gate that lets every dequeued node through
GateAlwaysOpen ==
  dependencies(edges, current_node_id) \subseteq Range(nodes)

\* line 635
GateOpen ==
  _are_dependencies_satisfied(dependencies(edges, current_node_id),
                              completed_nodes, current_loop)

\* a busy-wait that a pass of the loop does not count
WaitWithoutCounting ==
  /\ pc = "loop"
  /\ execution_queue # << >>
  /\ current_iteration < max_iterations
  /\ ~ (current_loop.some
        /\ _handle_loop_execution(current_node_id, current_loop.loop) # "continue")
  /\ ~ (current_node_id \in completed_nodes /\ ~ current_loop.some)
  /\ ~ _are_dependencies_satisfied(dependencies(edges, current_node_id),
                                   completed_nodes, current_loop)
  /\ execution_queue' = Append(Tail(execution_queue), current_node_id)
  /\ dequeues' = dequeues + 1
  /\ skipped' = skipped
  /\ UNCHANGED << inputs, quality_phase, active_loops, current_iteration, completed_nodes,
                  node_status, node_outputs, events, executions, pc >>

\* lines 635-637
WaitForDependencies ==
  /\ LoopRuns
  /\ loop_action = "continue"
  /\ ~ IsDropped
  /\ ~ GateOpen
  /\ current_iteration' = current_iteration + 1
  /\ execution_queue' = Append(Tail(execution_queue), current_node_id)
  /\ dequeues' = dequeues + 1
  /\ skipped' = skipped
  /\ UNCHANGED << inputs, quality_phase, active_loops, completed_nodes, node_status, node_outputs,
                  events, executions, pc >>

(***************************************************************************)
(* Lines 678-705: the loop over node_info['dependents'], in the iteration  *)
(* order `order` of that set.  acc holds execution_queue, active_loops and *)
(* the events yielded; loop_id is the current loop (0: none).              *)
(***************************************************************************)
IsLoopBack(loops, loop_id, dependent_id) ==
  loop_id # 0 /\ dependent_id = loops[loop_id].entry_node

NextIteration(loops, loop_id) ==
  [loops EXCEPT ![loop_id].current_iteration = @ + 1]

OnLoopBack(acc, loop_id, dependent_id, node_result) ==
  LET loops == NextIteration(acc.loops, loop_id)
      iteration == loops[loop_id].current_iteration
  IN  IF _check_loop_exit_condition(loops[loop_id], node_result)
        THEN [ queue  |-> acc.queue,
               loops  |-> loops,
               events |-> Append(acc.events,
                                 LoopStatusEvent(loop_id, "exiting", iteration)) ]
        ELSE [ queue  |-> << dependent_id >> \o acc.queue,
               loops  |-> loops,
               events |-> Append(acc.events,
                                 LoopStatusEvent(loop_id, "continuing", iteration)) ]

\* a loop-back edge handled like any other edge: no loop accounting
EnqueuePlainly(acc, loop_id, dependent_id, node_result) ==
  IF dependent_id \in Range(acc.queue)
    THEN acc
    ELSE [acc EXCEPT !.queue = Append(@, dependent_id)]

EnqueueDependent(acc, loop_id, dependent_id, node_result) ==
  IF dependent_id \in Range(acc.queue)
    THEN acc
  ELSE IF IsLoopBack(acc.loops, loop_id, dependent_id)
    THEN OnLoopBack(acc, loop_id, dependent_id, node_result)
  ELSE [acc EXCEPT !.queue = Append(@, dependent_id)]

RECURSIVE EnqueueDependents(_, _, _, _, _)

EnqueueDependents(acc, loop_id, order, i, node_result) ==
  IF i > Len(order)
    THEN acc
    ELSE EnqueueDependents(EnqueueDependent(acc, loop_id, order[i], node_result),
                           loop_id, order, i + 1, node_result)

\* line 665-666
MarkCompleted(completed, node_id, in_loop) ==
  IF in_loop THEN completed ELSE completed \cup {node_id}

Executes ==
  /\ LoopRuns
  /\ loop_action = "continue"
  /\ ~ IsDropped
  /\ GateOpen

\* lines 639-712: the executor returns
ExecuteNode ==
  /\ Executes
  /\ \E outcome \in _execute_node(edges, node_type[current_node_id], current_node_id) :
     \E order \in Orderings(dependents(edges, current_node_id)) :
       /\ ~ outcome.raised
       /\ LET completed == MarkCompleted(completed_nodes, current_node_id,
                                         current_loop.some)
              started == [ queue  |-> Tail(execution_queue),
                           loops  |-> active_loops,
                           events |-> events
                                      \o << NodeStatusEvent(current_node_id, "running"),
                                            NodeCompletedEvent(current_node_id, outcome.result) >> ]
              after == EnqueueDependents(started, current_loop.id, order, 1,
                                         outcome.result)
          IN  /\ node_outputs' = [node_outputs EXCEPT ![current_node_id] = outcome.result]
              /\ completed_nodes' = completed
              /\ execution_queue' = after.queue
              /\ active_loops' = after.loops
              /\ events' = Append(after.events, WorkflowProgress(completed))
  /\ current_iteration' = current_iteration + 1
  /\ node_status' = [node_status EXCEPT ![current_node_id] = "completed"]
  /\ executions' = [executions EXCEPT ![current_node_id] = @ + 1]
  /\ dequeues' = dequeues + 1
  /\ skipped' = skipped
  /\ UNCHANGED << inputs, quality_phase, pc >>

\* a failure handler without the return: the loop goes on
FailNodeContinues ==
  /\ pc = "loop"
  /\ execution_queue # << >>
  /\ current_iteration < max_iterations
  /\ ~ (current_loop.some
        /\ _handle_loop_execution(current_node_id, current_loop.loop) # "continue")
  /\ ~ (current_node_id \in completed_nodes /\ ~ current_loop.some)
  /\ _are_dependencies_satisfied(dependencies(edges, current_node_id),
                                 completed_nodes, current_loop)
  /\ [raised |-> TRUE, result |-> Result("none", NoOutput)]
       \in _execute_node(edges, node_type[current_node_id], current_node_id)
  /\ current_iteration' = current_iteration + 1
  /\ execution_queue' = Tail(execution_queue)
  /\ node_status' = [node_status EXCEPT ![current_node_id] = "failed"]
  /\ executions' = [executions EXCEPT ![current_node_id] = @ + 1]
  /\ events' = events \o << NodeStatusEvent(current_node_id, "running"),
                            NodeStatusEvent(current_node_id, "failed"),
                            WorkflowStatusEvent("failed", "node_failed", {}) >>
  /\ dequeues' = dequeues + 1
  /\ skipped' = skipped
  /\ UNCHANGED << inputs, quality_phase, active_loops, completed_nodes, node_outputs, pc >>

\* lines 714-731: the executor raises
FailNode ==
  /\ Executes
  /\ Raised \in _execute_node(edges, node_type[current_node_id], current_node_id)
  /\ current_iteration' = current_iteration + 1
  /\ execution_queue' = Tail(execution_queue)
  /\ node_status' = [node_status EXCEPT ![current_node_id] = "failed"]
  /\ executions' = [executions EXCEPT ![current_node_id] = @ + 1]
  /\ events' = events \o << NodeStatusEvent(current_node_id, "running"),
                            NodeStatusEvent(current_node_id, "failed"),
                            WorkflowStatusEvent("failed", "node_failed", {}) >>
  /\ pc' = "done"
  /\ dequeues' = dequeues + 1
  /\ skipped' = skipped
  /\ UNCHANGED << inputs, quality_phase, active_loops, completed_nodes, node_outputs >>

(***************************************************************************)
(* Lines 733-751: the terminal event after the while loop.                 *)
(***************************************************************************)
PendingNodes == { n \in Range(nodes) : node_status[n] = "pending" }

\* no terminal event when nodes are left pending
TerminalEventAllOrNothing ==
  IF current_iteration >= max_iterations
    THEN WorkflowStatusEvent("failed", "max_iterations", {})
  ELSE IF Cardinality(completed_nodes) = Len(nodes)
    THEN WorkflowStatusEvent("completed", "all_completed", {})
  ELSE WorkflowProgress(completed_nodes)

TerminalEvent ==
  IF current_iteration >= max_iterations
    THEN WorkflowStatusEvent("failed", "max_iterations", {})
  ELSE IF Cardinality(completed_nodes) = Len(nodes)
    THEN WorkflowStatusEvent("completed", "all_completed", {})
  ELSE WorkflowStatusEvent("completed", "pending", PendingNodes)

Finish ==
  /\ pc = "loop"
  /\ ~ LoopRuns
  /\ events' = Append(events, TerminalEvent)
  /\ pc' = "done"
  /\ UNCHANGED << inputs, quality_phase, active_loops, current_iteration, execution_queue,
                  completed_nodes, node_status, node_outputs, executions, dequeues,
                  skipped >>

Next ==
  \/ Start
  \/ ExitLoop
  \/ RestartLoop
  \/ SkipCompleted
  \/ WaitForDependencies
  \/ ExecuteNode
  \/ FailNode
  \/ Finish

Spec == Init /\ [][Next]_vars

(***************************************************************************)
(* execute_workflow (lines 68-271): the main agent run, the quality        *)
(* validation and the corrective pass.  The scheduler is not part of it:   *)
(* execute_workflow drives the agent runtime, not _execute_graph.          *)
(***************************************************************************)
QualityEvent(type, status, score, error) ==
  Event(type, 0, 0, status, score, error, {}, NoResult)

SchedulerIdle ==
  /\ nodes = << >>
  /\ edges = << >>
  /\ node_type = << >>
  /\ max_iterations = DefaultMaxIterations
  /\ loop_max = DefaultLoopIterations
  /\ active_loops = << >>
  /\ current_iteration = 0
  /\ execution_queue = << >>
  /\ completed_nodes = {}
  /\ node_status = << >>
  /\ node_outputs = << >>
  /\ events = << >>
  /\ executions = << >>
  /\ dequeues = 0
  /\ skipped = {}
  /\ pc = "idle"

scheduler == << inputs, active_loops, current_iteration, execution_queue,
                completed_nodes, node_status, node_outputs, executions, dequeues,
                skipped, pc >>

\* lines 76-92: the call, with its arguments
ExecuteWorkflowInit ==
  /\ SchedulerIdle
  /\ phase = "start"
  /\ workflow_name \in WorkflowNames
  /\ variables \in VariablesArguments
  /\ execution = Execution("running", "")
  /\ workflow_completed = FALSE
  /\ initial_workflow_output = NoContent
  /\ validation_response = NoResponse
  /\ quality_result = NoQualityResult
  /\ agent_runs = 0
  /\ thread = << >>

\* lines 259-271: the handler of an exception that reaches the outer try
FailExecution(error) ==
  /\ execution' = Execution("failed", error)
  /\ events' = Append(events, QualityEvent("workflow_status", "failed", 0, error))
  /\ phase' = "returned"

\* lines 94-105: storing the execution, the sandbox, the flow data or the
\* thread raises
SetupFails ==
  /\ phase = "start"
  /\ FailExecution("setup_error")
  /\ UNCHANGED << scheduler, workflow_name, variables, workflow_completed,
                  initial_workflow_output, validation_response, quality_result,
                  agent_runs, thread >>

\* the statuses that end the main run (line 146); "none": the response
\* stream ends without one
TerminalStatuses == {"completed", "failed", "stopped"}

\* lines 126-157: run_agent is called and its responses are passed on, up to
\* a terminal status or the end of the stream
MainRunEnds ==
  /\ phase = "start"
  /\ agent_runs' = agent_runs + 1
  /\ \E status \in TerminalStatuses \cup {"none"} :
       /\ workflow_completed' = (status = "completed")
       /\ execution' = IF status = "none" THEN execution
                       ELSE Execution(status, IF status = "failed" THEN "agent_failed" ELSE "")
       /\ events' = IF status = "none" THEN events
                    ELSE Append(events, QualityEvent("status", status, 0, ""))
  /\ initial_workflow_output' \in OutputContents
  /\ phase' = "after_main"
  /\ UNCHANGED << scheduler, workflow_name, variables, validation_response,
                  quality_result, thread >>

\* lines 126-157, 259-271: run_agent raises
MainRunRaises ==
  /\ phase = "start"
  /\ agent_runs' = agent_runs + 1
  /\ FailExecution("agent_error")
  /\ UNCHANGED << scheduler, workflow_name, variables, workflow_completed,
                  initial_workflow_output, validation_response, quality_result,
                  thread >>

\* line 160
QualityCheckApplies ==
  workflow_completed /\ _should_perform_quality_check(workflow_name, variables)

\* lines 253-257
SkipQualityCheck ==
  /\ phase = "after_main"
  /\ ~ QualityCheckApplies
  /\ phase' = "returned"
  /\ UNCHANGED << scheduler, events, workflow_name, variables, execution,
                  workflow_completed, initial_workflow_output, validation_response,
                  quality_result, agent_runs, thread >>

\* line 192
CorrectionTriggered(result) == needs_correction(result)

\* lines 160-200 and 252: validating, the judge's verdict, quality_validation,
\* and correcting when the result needs correction
ValidateOutput ==
  /\ phase = "after_main"
  /\ QualityCheckApplies
  /\ \E response \in JudgeResponses :
       LET result == validate_workflow_output(
                       initial_workflow_output,
                       _extract_template_from_variables(variables), response)
           reported == events
                       \o << QualityEvent("workflow_status", "validating", 0, ""),
                             QualityEvent("quality_validation", result.result,
                                          result.score, "") >>
       IN  /\ validation_response' = response
           /\ quality_result' = result
           /\ IF CorrectionTriggered(result)
                THEN /\ events' = Append(reported,
                                         QualityEvent("workflow_status", "correcting", 0, ""))
                     /\ phase' = "correcting"
                ELSE /\ events' = reported
                     /\ phase' = "returned"
  /\ UNCHANGED << scheduler, workflow_name, variables, execution, workflow_completed,
                  initial_workflow_output, agent_runs, thread >>

\* lines 204, 245-251: _add_correction_message_to_thread raises
CorrectionMessageFails ==
  /\ phase = "correcting"
  /\ events' = Append(events, QualityEvent("correction_failed", "", 0, "message_error"))
  /\ phase' = "returned"
  /\ UNCHANGED << scheduler, workflow_name, variables, execution, workflow_completed,
                  initial_workflow_output, validation_response, quality_result,
                  agent_runs, thread >>

\* a corrective pass after which the output is judged again
CorrectiveRunThenRevalidate ==
  /\ phase = "correcting"
  /\ thread' = Append(thread, quality_result.correction_prompt)
  /\ agent_runs' = agent_runs + 1
  /\ events' = Append(events, QualityEvent("correction_completed", "",
                                           quality_result.score, ""))
  /\ phase' = "after_main"
  /\ UNCHANGED << scheduler, workflow_name, variables, execution, workflow_completed,
                  initial_workflow_output, validation_response, quality_result >>

\* lines 204-243: the message is added, run_agent is called a second time
\* and its responses are read up to a terminal status or the end of the stream
CorrectiveRunEnds ==
  /\ phase = "correcting"
  /\ thread' = Append(thread, quality_result.correction_prompt)
  /\ agent_runs' = agent_runs + 1
  /\ events' = Append(events, QualityEvent("correction_completed", "",
                                           quality_result.score, ""))
  /\ phase' = "returned"
  /\ UNCHANGED << scheduler, workflow_name, variables, execution, workflow_completed,
                  initial_workflow_output, validation_response, quality_result >>

\* a corrective pass whose failure fails the execution
CorrectiveRunRaisesAndFails ==
  /\ phase = "correcting"
  /\ thread' = Append(thread, quality_result.correction_prompt)
  /\ agent_runs' = agent_runs + 1
  /\ FailExecution("agent_error")
  /\ UNCHANGED << scheduler, workflow_name, variables, workflow_completed,
                  initial_workflow_output, validation_response, quality_result >>

\* lines 204-223, 245-251: the message is added, the corrective run_agent raises
CorrectiveRunRaises ==
  /\ phase = "correcting"
  /\ thread' = Append(thread, quality_result.correction_prompt)
  /\ agent_runs' = agent_runs + 1
  /\ events' = Append(events, QualityEvent("correction_failed", "", 0, "agent_error"))
  /\ phase' = "returned"
  /\ UNCHANGED << scheduler, workflow_name, variables, execution, workflow_completed,
                  initial_workflow_output, validation_response, quality_result >>

ExecuteWorkflowNext ==
  \/ SetupFails
  \/ MainRunEnds
  \/ MainRunRaises
  \/ SkipQualityCheck
  \/ ValidateOutput
  \/ CorrectionMessageFails
  \/ CorrectiveRunEnds
  \/ CorrectiveRunRaises

ExecuteWorkflowSpec == ExecuteWorkflowInit /\ [][ExecuteWorkflowNext]_vars

(***************************************************************************)
(* Notions the properties below are stated with.                           *)
(***************************************************************************)
NodeSet == Range(nodes)

EdgeSet == Range(edges)

RECURSIVE Peel(_, _)

\* what is left of the node set S after removing, again and again, a node
\* that no edge of E from a remaining node points to
Peel(S, E) ==
  IF \E n \in S : \A e \in E : ~ (Target(e) = n /\ Source(e) \in S)
    THEN Peel(S \ { CHOOSE n \in S : \A e \in E : ~ (Target(e) = n /\ Source(e) \in S) }, E)
    ELSE S

Acyclic(S, E) == Peel(S, E) = {}

NoNodeFailed == \A n \in NodeSet : node_status[n] # "failed"

LastEvent == events[Len(events)]

CompletedAt(n) ==
  { i \in 1..Len(events) : /\ events[i].type = "node_status"
                           /\ events[i].node_id = n
                           /\ events[i].status = "completed" }

RunningAt(n) ==
  { i \in 1..Len(events) : events[i] = NodeStatusEvent(n, "running") }

WorkflowStatusAt == { i \in 1..Len(events) : events[i].type = "workflow_status" }

BoundExceeded == WorkflowStatusEvent("failed", "max_iterations", {})

SomeNodeFailed == \E n \in NodeSet : node_status[n] = "failed"

C2_FailureIsFatal ==
  /\ [](\A n \in NodeSet :
          node_status[n] = "failed"
          => /\ pc = "done"
             /\ Len(events) >= 3
             /\ events[Len(events) - 1] = NodeStatusEvent(n, "failed")
             /\ LastEvent = WorkflowStatusEvent("failed", "node_failed", {}))
  /\ [][SomeNodeFailed
        => UNCHANGED << events, executions, execution_queue, current_iteration >>]_vars

\* a node failed while other nodes were queued and budget was left
C2_Witness ==
  /\ SomeNodeFailed
  /\ execution_queue # << >>
  /\ current_iteration < max_iterations
  /\ LastEvent = WorkflowStatusEvent("failed", "node_failed", {})

(***************************************************************************)
(* C3: when the while test finds the iteration counter at max_iterations   *)
(* with nodes still queued, the next and last step of the run emits        *)
(* workflow_status:failed citing the bound, and executes no node.          *)
(***************************************************************************)
BoundReachedWithWork ==
  /\ pc = "loop"
  /\ current_iteration = max_iterations
  /\ execution_queue # << >>

C3_BoundStopsRun ==
  [][BoundReachedWithWork
     => /\ pc' = "done"
        /\ events' = Append(events, BoundExceeded)
        /\ executions' = executions
        /\ execution_queue' = execution_queue]_vars

\* a bound of 5 was exhausted with nodes still queued
C3_Witness ==
  /\ pc = "done"
  /\ max_iterations = 5
  /\ current_iteration = 5
  /\ Cardinality(completed_nodes) = 2
  /\ execution_queue # << >>
  /\ NoNodeFailed
  /\ LastEvent = BoundExceeded

(***************************************************************************)
(* C4: a finished run has emitted exactly one workflow_status event, as    *)
(* its last event; a run that has not finished has emitted none.           *)
(***************************************************************************)
C4_OneTerminalEvent ==
  IF pc = "done"
    THEN WorkflowStatusAt = { Len(events) }
    ELSE WorkflowStatusAt = {}

\* runs on a graph with cycles that ended by failure, by the bound, or complete
C4_Witness ==
  /\ pc = "done"
  /\ active_loops # << >>
  /\ LastEvent = BoundExceeded
  /\ WorkflowStatusAt = { Len(events) }

(***************************************************************************)
(* C5: the while loop dequeues at most max_iterations times, and, the      *)
(* scheduler taking its steps (weak fairness: each executor call returns   *)
(* or raises), every run ends, with a workflow_status event as its last.   *)
(***************************************************************************)
FairSpec == Spec /\ WF_vars(Next)

C5_BoundedTermination ==
  /\ [](dequeues <= max_iterations)
  /\ <>[](pc = "done" /\ LastEvent.type = "workflow_status")

\* a run with a loop region and a node that waits, ended by the bound
C5_Witness ==
  /\ pc = "done"
  /\ current_iteration = max_iterations
  /\ max_iterations = DefaultMaxIterations
  /\ active_loops # << >>

(***************************************************************************)
(* Notions of the loop properties.                                         *)
(***************************************************************************)
\* the self-edge of s is the only cycle of the graph
SelfLoopOnly(s) ==
  /\ << s, s >> \in EdgeSet
  /\ Acyclic(NodeSet, EdgeSet \ { << s, s >> })

\* some entry point of the graph points to s
FedByEntry(s) ==
  \E e \in Range(_find_entry_points(nodes, edges)) : e # s /\ << e, s >> \in EdgeSet

\* no agent result of the run carries STOP, COMPLETE or DONE
NoExitToken ==
  \A i \in 1..Len(events) :
    events[i].output.type = "agent" => ~ HasExitToken(events[i].output.output)

IsWorkflow(w) ==
  nodes = w.nodes /\ edges = w.edges /\ node_type = w.node_type

IsCompletedEvent(e) == e.type = "node_status" /\ e.status = "completed"

\* the node ids of the node_status:completed events, in emission order
CompletionOrder ==
  LET done == SelectSeq(events, IsCompletedEvent)
  IN  [i \in 1..Len(done) |-> done[i].node_id]

(***************************************************************************)
(* C6: in a graph whose only cycle is the self-edge of a node s, a run     *)
(* executes s at most loop_max times (the bound N of its loop region).     *)
(***************************************************************************)
C6_SelfLoopBound ==
  \A s \in NodeSet : SelfLoopOnly(s) => executions[s] <= loop_max

\* a finished run over such a graph, with bound >= 2, whose loop has iterated
C6_Witness ==
  /\ pc = "done"
  /\ loop_max >= 2
  /\ Len(active_loops) = 1
  /\ active_loops[1].current_iteration >= 1
  /\ \E s \in NodeSet : SelfLoopOnly(s) /\ FedByEntry(s) /\ executions[s] >= 1

(***************************************************************************)
(* C7: in a graph whose only cycle is the self-edge of a node s fed by an  *)
(* entry point, a run with the default global bound in which no executor   *)
(* raises and no agent output carries an exit token ends with s completed  *)
(* and every successor of s outside the loop enqueued (still queued, or    *)
(* dequeued and executed).                                                 *)
(***************************************************************************)
C7_ForcedExit ==
  \A s \in NodeSet :
    ( /\ pc = "done"
      /\ SelfLoopOnly(s)
      /\ FedByEntry(s)
      /\ max_iterations = DefaultMaxIterations
      /\ NoNodeFailed
      /\ NoExitToken )
    => /\ s \in completed_nodes
       /\ \A t \in dependents(edges, s) \ {s} :
            t \in Range(execution_queue) \/ executions[t] >= 1

(***************************************************************************)
(* C8: on Input -> Agent1 -> Agent2 -> Agent1 with a successor outside the *)
(* loop, loop bound 3 and the default global bound, a run in which no      *)
(* executor raises and no agent output carries an exit token ends with     *)
(* each agent executed 3 times and the successor executed once.            *)
(***************************************************************************)
C8_TwoCycleThreeIterations ==
  ( /\ pc = "done"
    /\ \E w \in TwoCycle : IsWorkflow(w)
    /\ loop_max = 3
    /\ max_iterations = DefaultMaxIterations
    /\ NoNodeFailed
    /\ NoExitToken )
  => /\ executions[2] = 3
     /\ executions[3] = 3
     /\ executions[4] = 1

(***************************************************************************)
(* C9: on Input -> Agent -> ToolConnection with the default global bound,  *)
(* a run in which the agent does not raise ends with three completed       *)
(* events, for Input, Agent and ToolConnection in that order, and with     *)
(* workflow_status:completed as its last event.                            *)
(***************************************************************************)
C9_PipelineCompletes ==
  ( /\ pc = "done"
    /\ IsWorkflow(Pipeline)
    /\ max_iterations = DefaultMaxIterations
    /\ node_status[2] # "failed" )
  => /\ CompletionOrder = << 1, 2, 3 >>
     /\ LastEvent.type = "workflow_status"
     /\ LastEvent.status = "completed"

(***************************************************************************)
(* C10: a dequeued node that reaches the dependency gate, and whose        *)
(* dependencies all lie in one loop region that contains it, passes the    *)
(* gate.                                                                   *)
(***************************************************************************)
C10_LoopGateNeverWaits ==
  ( /\ LoopRuns
    /\ loop_action = "continue"
    /\ ~ IsDropped
    /\ \E i \in ContainingLoops(active_loops, current_node_id) :
         dependencies(edges, current_node_id) \subseteq active_loops[i].loop_nodes )
  => GateOpen

(***************************************************************************)
(* Notions of the event-order properties.                                  *)
(***************************************************************************)
\* d is a member of no loop region that _detect_loops has recorded
InNoLoop(d) == ContainingLoops(active_loops, d) = {}

\* a completed event of d precedes position i of the event list
CompletedBefore(d, i) == \E j \in CompletedAt(d) : j < i

C12_AllCompletedIsCompleted ==
  ( /\ pc = "done"
    /\ execution_queue = << >>
    /\ completed_nodes = NodeSet )
  => LastEvent = WorkflowStatusEvent("completed", "all_completed", {})

(***************************************************************************)
(* C13: a run over a non-empty graph in which every node has an incoming   *)
(* edge never emits workflow_status:completed.                             *)
(***************************************************************************)
NoEntryPoint == nodes # << >> /\ _find_entry_points(nodes, edges) = << >>

C13_NoEntryPointNeverCompletes ==
  NoEntryPoint =>
    \A i \in WorkflowStatusAt : events[i].status # "completed"

(***************************************************************************)
(* Loop detection as a function of the listing order of nodes and edges.   *)
(***************************************************************************)
\* the loop regions of a detection result: member sets with entry nodes
LoopRegions(loops) ==
  { [loop_nodes |-> loops[i].loop_nodes, entry_node |-> loops[i].entry_node] :
      i \in 1..Len(loops) }

(***************************************************************************)
(* C14: the loop regions a run has detected are those that detection       *)
(* yields again on the same input, and those it yields when the same       *)
(* edges, or the same nodes, are listed in reverse order.                  *)
(***************************************************************************)
C14_LoopDetectionOrderIndependent ==
  pc # "init" =>
    /\ LoopRegions(active_loops) = LoopRegions(_detect_loops(nodes, edges, loop_max))
    /\ LoopRegions(active_loops)
         = LoopRegions(_detect_loops(nodes, Reverse(edges), loop_max))
    /\ LoopRegions(active_loops)
         = LoopRegions(_detect_loops(Reverse(nodes), edges, loop_max))

(***************************************************************************)
(* Notions of the quality properties.                                      *)
(***************************************************************************)
\* the judge has given its result for an output that has content
Judged == quality_result # NoQualityResult /\ initial_workflow_output.present

\* the judge's response held a verdict with a numeric score and a flag
HasScoreAndFlag ==
  /\ validation_response.kind = "object"
  /\ validation_response.score_kind = "number"
  /\ validation_response.flag \in {"true", "false"}

\* the judge's response came back but could not be parsed into a verdict
Unparseable ==
  validation_response.kind \notin {"none", "raised"} /\ ~ Parses(validation_response)

EventsOf(type, status) ==
  { i \in 1..Len(events) : events[i].type = type /\ events[i].status = status }

(***************************************************************************)
(* C15: for a parsed verdict with score s and correction flag f, the       *)
(* judge's result is passed when s >= 0.8 and f is false,                  *)
(* needs_correction when f is true, and failed otherwise.                  *)
(***************************************************************************)
C15_DecisionRule ==
  (Judged /\ HasScoreAndFlag) =>
    LET s == validation_response.score
        f == validation_response.flag = "true"
    IN  /\ (s >= PassThreshold /\ ~ f) => quality_result.result = "passed"
        /\ f => quality_result.result = "needs_correction"
        /\ (s < PassThreshold /\ ~ f) => quality_result.result = "failed"
        /\ quality_result.score = s

\* a verdict with the score on the threshold and no correction flag passed
C15_Witness ==
  /\ Judged
  /\ validation_response = Response("object", "number", PassThreshold, "false")
  /\ quality_result.result = "passed"
  /\ phase = "returned"

(***************************************************************************)
(* C16: whenever a completed, rubric-checked run has received the verdict  *)
(* failed, the correcting status has been emitted, and when the run has    *)
(* returned a corrective pass has been started or its message has failed.  *)
(***************************************************************************)
C16_FailedTriggersCorrection ==
  (Judged /\ quality_result.result = "failed") =>
    /\ EventsOf("workflow_status", "correcting") # {}
    /\ phase = "returned" =>
         \/ agent_runs = 2
         \/ EventsOf("correction_failed", "") # {}

(***************************************************************************)
(* C17: when the judge's response cannot be parsed, the judge's result and *)
(* score are those _basic_validation computes on the output and template.  *)
(***************************************************************************)
C17_UnparsedFallsBackToHeuristic ==
  (Judged /\ Unparseable) =>
    LET basic == _basic_validation(initial_workflow_output,
                                   _extract_template_from_variables(variables))
    IN  /\ quality_result.result = basic.result
        /\ quality_result.score = basic.score

(***************************************************************************)
(* C18: run_agent is called at most twice in a run of execute_workflow,    *)
(* the second call being the one corrective pass; once that pass has been  *)
(* started the run returns, whatever the pass produced.                    *)
(***************************************************************************)
C18_AtMostOneCorrection ==
  /\ agent_runs <= 2
  /\ Len(thread) <= 1
  /\ Cardinality(EventsOf("workflow_status", "correcting")) <= 1
  /\ agent_runs = 2 =>
       /\ phase = "returned"
       /\ Cardinality(EventsOf("workflow_status", "correcting")) = 1

\* the corrective pass has run and the run has returned
C18_Witness ==
  /\ phase = "returned"
  /\ agent_runs = 2
  /\ Len(thread) = 1
  /\ LastEvent.type = "correction_completed"

(***************************************************************************)
(* C19: a run that has started correcting and has returned ends with       *)
(* correction_completed or with correction_failed carrying the error, its  *)
(* execution status is completed, and it has emitted no                    *)
(* workflow_status:failed.                                                 *)
(***************************************************************************)
C19_CorrectionFailureKeepsStatus ==
  (phase = "returned" /\ EventsOf("workflow_status", "correcting") # {}) =>
    /\ LastEvent.type \in {"correction_completed", "correction_failed"}
    /\ LastEvent.type = "correction_failed" => LastEvent.detail # ""
    /\ execution.status = "completed"
    /\ EventsOf("workflow_status", "failed") = {}

\* the corrective agent run has raised
C19_Witness ==
  /\ phase = "returned"
  /\ agent_runs = 2
  /\ LastEvent = QualityEvent("correction_failed", "", 0, "agent_error")
  /\ execution.status = "completed"

(***************************************************************************)
(* C20: when the judge's LLM call has raised, the output is shorter than   *)
(* MinLength and no template was supplied, the result (that of             *)
(* _basic_validation) is needs_correction or failed, never passed.         *)
(***************************************************************************)
C20_ShortOutputNeverPasses ==
  ( /\ Judged
    /\ validation_response.kind = "raised"
    /\ initial_workflow_output.len < MinLength
    /\ ~ _extract_template_from_variables(variables).present )
  => /\ quality_result = _basic_validation(initial_workflow_output, NoContent)
     /\ quality_result.result \in {"needs_correction", "failed"}

\* the heuristic has judged a 99-character output without a template
C20_Witness ==
  /\ Judged
  /\ validation_response.kind = "raised"
  /\ initial_workflow_output.len = MinLength - 1
  /\ ~ _extract_template_from_variables(variables).present
  /\ quality_result.result = "needs_correction"
  /\ quality_result.score = BasicScore - ShortPenalty

(***************************************************************************)
(* Notions of the heuristic-fallback properties.                           *)
(***************************************************************************)
\* the judge's LLM call raised, so that the result is _basic_validation's
HeuristicJudged == Judged /\ validation_response.kind = "raised"

\* the issues of the judge's result that name missing template sections
MissingSectionIssues ==
  { i \in quality_result.issues : i.kind = "missing_sections" }

(***************************************************************************)
(* C21: when the heuristic fallback has judged an output with the section  *)
(* headers {A, B} against a template with the section headers {A, B, C},   *)
(* of any length, its issue list names exactly C as the missing section.   *)
(***************************************************************************)
C21_MissingSectionNamed ==
  ( /\ HeuristicJudged
    /\ _extract_sections(_extract_template_from_variables(variables)) = {"A", "B", "C"}
    /\ _extract_sections(initial_workflow_output) = {"A", "B"} )
  => MissingSectionIssues = { Issue("missing_sections", {"C"}) }

(***************************************************************************)
(* C22: every instruction injected into the thread for the corrective pass *)
(* is the prompt generate_correction_prompt builds from the verdict, the   *)
(* original input, the template and the current output; it is never None.  *)
(***************************************************************************)
C22_CorrectionPromptInjected ==
  \A i \in 1..Len(thread) :
    /\ thread[i] # NoPrompt
    /\ thread[i] = generate_correction_prompt(
                     initial_workflow_output, quality_result, variables,
                     _extract_template_from_variables(variables))

(***************************************************************************)
(* Notions of the loop-event properties.                                   *)
(***************************************************************************)
LoopStatusAt == { i \in 1..Len(events) : events[i].type = "loop_status" }

\* the output of the last execution of n that completed before position i
\* of the event list (NoOutput when there is none)
LatestOutputBefore(n, i) ==
  LET before == { j \in CompletedAt(n) : j < i }
  IN  IF before = {} THEN NoOutput
      ELSE events[CHOOSE j \in before : \A k \in before : k <= j].output.output

\* a loop_status event of an iteration below the loop's bound
BelowLoopBound(e) == e.n < active_loops[e.loop_id].max_iterations

(***************************************************************************)
(* C23: for a loop whose entry node is an Agent node, a loop_status event  *)
(* of an iteration below the loop's bound is exiting if and only if the    *)
(* entry node's latest output carries STOP, COMPLETE or DONE.              *)
(***************************************************************************)
C23_ExitTestsEntryOutput ==
  \A i \in LoopStatusAt :
    LET entry == active_loops[events[i].loop_id].entry_node
    IN  (node_type[entry] = "agentNode" /\ BelowLoopBound(events[i]))
        => ( events[i].status = "exiting"
             <=> HasExitToken(LatestOutputBefore(entry, i)) )

\* the loop regions for which loop_status:exiting has been emitted below the
\* loop's bound: the exit condition was met by an agent's output
ExitedLoops ==
  { events[i].loop_id :
      i \in { j \in LoopStatusAt : /\ events[j].status = "exiting"
                                   /\ BelowLoopBound(events[j]) } }

(***************************************************************************)
(* C24: once loop_status:exiting has been emitted for a loop whose exit    *)
(* condition was met, every member of the loop is in completed_nodes, and  *)
(* a run that then ends below the global bound without a failure has       *)
(* executed every node outside the loop that depends on a member.          *)
(***************************************************************************)
C24_ExitCompletesMembers ==
  \A l \in ExitedLoops :
    /\ active_loops[l].loop_nodes \subseteq completed_nodes
    /\ (pc = "done" /\ NoNodeFailed /\ current_iteration < max_iterations)
       => \A t \in loop_exit_nodes(edges, active_loops[l]) : executions[t] >= 1

\* the loop_status:continuing events of an iteration below the loop's bound
ContinuingAt ==
  { i \in LoopStatusAt : events[i].status = "continuing" /\ BelowLoopBound(events[i]) }

(***************************************************************************)
(* C25: in a run with the default global bound that has ended without a    *)
(* failed node, every loop_status:continuing event of an iteration below   *)
(* the loop's bound is followed by a node_status:running event of that     *)
(* loop's entry node.                                                      *)
(***************************************************************************)
C25_RestartRunsEntryAgain ==
  (pc = "done" /\ NoNodeFailed /\ max_iterations = DefaultMaxIterations)
  => \A i \in ContinuingAt :
       \E j \in RunningAt(active_loops[events[i].loop_id].entry_node) : j > i

(***************************************************************************)
(* Notions of the loop-detection properties.                               *)
(***************************************************************************)
\* c lists distinct nodes, each with an edge to the next and the last with
\* an edge to the first
IsSimpleCycle(c) ==
  /\ \A i, j \in 1..Len(c) : i # j => c[i] # c[j]
  /\ \A i \in 1..Len(c) : << c[i], c[(i % Len(c)) + 1] >> \in EdgeSet

\* the node sets of the simple cycles of the graph
SimpleCycles ==
  { Range(c) : c \in { d \in UNION { [1..k -> NodeSet] : k \in 1..Len(nodes) } :
                         IsSimpleCycle(d) } }

\* the member sets of the detected loop regions
DetectedRegions == { active_loops[i].loop_nodes : i \in 1..Len(active_loops) }

\* every simple cycle is the member set of a detected loop region
EveryCycleRecorded == SimpleCycles \subseteq DetectedRegions

\* every node on a cycle is a member of a detected loop region
EveryCycleNodeInRegion == (UNION SimpleCycles) \subseteq (UNION DetectedRegions)

(***************************************************************************)
(* C26: after loop detection, every simple cycle of the graph is the       *)
(* member set of a detected loop region, and every node that lies on a     *)
(* cycle is a member of at least one loop region.                          *)
(***************************************************************************)
C26_EveryCycleDetected ==
  pc # "init" => (EveryCycleRecorded /\ EveryCycleNodeInRegion)

(***************************************************************************)
(* C27: every node in completed_nodes has been executed with success (its  *)
(* status is completed) and has an entry in node_outputs; a run that       *)
(* reports that all nodes completed has executed every node.               *)
(***************************************************************************)
C27_CompletedWereExecuted ==
  /\ \A n \in completed_nodes :
       /\ executions[n] >= 1
       /\ node_status[n] = "completed"
       /\ node_outputs[n] # NoResult
  /\ (pc = "done" /\ LastEvent = WorkflowStatusEvent("completed", "all_completed", {}))
     => \A n \in NodeSet : executions[n] >= 1

(***************************************************************************)
(* C28: in every state of a run, on every graph, the current_iteration of  *)
(* each loop region is at most the region's max_iterations.                *)
(***************************************************************************)
C28_LoopIterationBounded ==
  \A i \in 1..Len(active_loops) :
    active_loops[i].current_iteration <= active_loops[i].max_iterations

\* on a graph with several loop regions, a region with a bound of at least
\* 2 has been iterated up to its bound
C28_Witness ==
  /\ Len(active_loops) >= 2
  /\ \E i \in 1..Len(active_loops) :
       /\ active_loops[i].max_iterations >= 2
       /\ active_loops[i].current_iteration = active_loops[i].max_iterations

(***************************************************************************)
(* C29: a node that is a member of no loop region is executed at most once *)
(* in a run, and a pass of the loop that dequeues such a node when it is   *)
(* in completed_nodes executes nothing, leaves the node statuses alone and *)
(* emits no event.                                                         *)
(***************************************************************************)
C29_CompletedNodeRunsOnce ==
  /\ [](pc # "init" => \A n \in NodeSet : InNoLoop(n) => executions[n] <= 1)
  /\ [][( /\ LoopRuns
          /\ InNoLoop(current_node_id)
          /\ current_node_id \in completed_nodes )
        => /\ execution_queue' = Tail(execution_queue)
           /\ UNCHANGED << executions, node_status, node_outputs, events,
                           completed_nodes >>]_vars

\* on a graph with a loop region, a node outside every loop region has been
\* executed once, enqueued again and dropped
C29_Witness ==
  /\ active_loops # << >>
  /\ \E n \in skipped : InNoLoop(n) /\ executions[n] = 1 /\ n \in completed_nodes

(***************************************************************************)
(* C30: the heuristic fallback returns needs_correction, with a score of   *)
(* at most 0.7, for every output and template; when it has judged a run's  *)
(* output, the result is needs_correction and the correcting status has    *)
(* been emitted.                                                           *)
(***************************************************************************)
C30_HeuristicNeverPasses ==
  /\ \A o \in OutputContents : \A t \in TemplateContents :
       /\ _basic_validation(o, t).result = "needs_correction"
       /\ _basic_validation(o, t).score <= BasicScore
  /\ HeuristicJudged =>
       /\ quality_result.result = "needs_correction"
       /\ quality_result.score < PassThreshold
       /\ CorrectionTriggered(quality_result)
       /\ EventsOf("workflow_status", "correcting") # {}

\* the heuristic has judged an output that is long enough and has every
\* section of a long template: no issue, score 0.7, and correction started
C30_Witness ==
  /\ HeuristicJudged
  /\ initial_workflow_output.len >= MinLength
  /\ _extract_template_from_variables(variables).len > MinTemplateLength
  /\ _extract_sections(_extract_template_from_variables(variables)) = {"A", "B"}
  /\ _extract_sections(initial_workflow_output) = {"A", "B", "C"}
  /\ quality_result.issues = {}
  /\ quality_result.score = BasicScore
  /\ quality_result.result = "needs_correction"
  /\ phase = "correcting"

====
